---- MODULE Spec2Model ----
(***************************************************************************)
(* Model of src/server.js: an Express proxy with three POST routes         *)
(* (/upload, /create-item, /create-subitem) that forward to an upstream    *)
(* GraphQL API over https.request and relay the reply.                     *)
(*                                                                         *)
(* JavaScript runs every handler and every callback to completion, so each *)
(* of them is one action.  What interleaves is: the arrival of requests    *)
(* (the middleware stack, multer included), the route handlers, the        *)
(* callbacks of each outbound request (response 'end', request 'error')    *)
(* and the callback of fs.unlink.                                          *)
(***************************************************************************)
EXTENDS Integers, Sequences, FiniteSets, TLC

\* Number of inbound requests the model lets arrive.
MaxReq == 2

Reqs == 1..MaxReq

VARIABLES
    nextId,     \* number of inbound requests received so far
    nextPath,   \* number of temp files multer has created so far
    req,        \* req[r]: the inbound request (route, fields, req.file)
    phase,      \* "idle" -> "received" (middleware done) -> "handled"
    disk,       \* paths that exist under uploads/
    steps,      \* steps[r]: the I/O calls the route handler made, in order
    out,        \* out[r]: outbound https requests created for r
    unlinkOf,   \* unlinkOf[r]: [path, state] of the fs.unlink r issued
    endFired,   \* endFired[r]: the upstream reply whose 'end' fired, or NoReply
    errFired,   \* errFired[r]: request 'error' fired
    wire,       \* wire[r]: responses written to the inbound connection
    fault,      \* exceptions thrown out of a handler or callback
    mpIn,       \* multipart assembly: item_id, column_id, originalname, file bytes
    mpOut,      \* multipart assembly: the boundary drawn and the payload built
    mpParsed    \* what a multipart parser reads back from mpOut

serverVars == <<nextId, nextPath, req, phase, disk, steps, out, unlinkOf,
                endFired, errFired, wire, fault>>

mpVars == <<mpIn, mpOut, mpParsed>>

vars == <<nextId, nextPath, req, phase, disk, steps, out, unlinkOf,
          endFired, errFired, wire, fault, mpIn, mpOut, mpParsed>>

----------------------------------------------------------------------------
(* Inputs *)

Routes == {"/upload", "/create-item", "/create-subitem"}

\* A query parameter or body field is "undefined" (not given), "" or "x".

\* The POST /upload requests the model lets arrive: item_id, column_id and
\* whether the multipart body carries a part named file.
UploadInputs ==
    { [a |-> "x", b |-> "x", hasFile |-> TRUE],
      [a |-> "x", b |-> "x", hasFile |-> FALSE],
      [a |-> "undefined", b |-> "x", hasFile |-> TRUE],
      [a |-> "x", b |-> "", hasFile |-> TRUE],
      [a |-> "undefined", b |-> "undefined", hasFile |-> FALSE] }

\* The bodies of the POST /create-item (boardId, itemName) and
\* /create-subitem (parentItemId, itemName) requests the model lets arrive.
CreateInputs ==
    { [a |-> "x", b |-> "x"],
      [a |-> "undefined", b |-> "x"],
      [a |-> "x", b |-> ""] }

NoFile == 0
NoReq == [route |-> "none", a |-> "undefined", b |-> "undefined", file |-> NoFile]
NoReply == [status |-> 0, body |-> "none"]
NoUnlink == [path |-> NoFile, state |-> "none"]

\* Number of occurrences of x in the sequence s.
Count(s, x) == Cardinality({i \in 1..Len(s) : s[i] = x})

\* Index of the first occurrence of x in s, 0 when there is none.
Pos(s, x) ==
    IF \E i \in 1..Len(s) : s[i] = x
    THEN CHOOSE i \in 1..Len(s) : s[i] = x /\ \A j \in 1..(i - 1) : s[j] # x
    ELSE 0

\* JavaScript's !v for the values a field takes here.
Falsy(v) == v \in {"undefined", ""}

----------------------------------------------------------------------------
(* Upstream replies and JSON *)

T_data == "{\"data\":{\"id\":\"1\"}}"
T_errors == "{\"errors\":[{\"message\":\"denied\"}]}"
T_big == "{\"id\":1e999}"
T_html == "<html>Bad Gateway</html>"

UpstreamReplies ==
    { [status |-> 200, body |-> T_data],
      [status |-> 500, body |-> T_errors],
      [status |-> 200, body |-> T_big],
      [status |-> 502, body |-> T_html] }

\* JSON.parse(rawData): the parsed value, or a SyntaxError.  1e999 is a
\* number of the JSON grammar that overflows a double: it parses to Infinity.
JSONParse(raw) ==
    CASE raw = T_data   -> [threw |-> FALSE, value |-> "obj:data.id=1"]
      [] raw = T_errors -> [threw |-> FALSE, value |-> "obj:errors[0].message=denied"]
      [] raw = T_big    -> [threw |-> FALSE, value |-> "obj:id=Infinity"]
      [] OTHER          -> [threw |-> TRUE, value |-> "SyntaxError"]

\* JSON.stringify(value), as res.json calls it: Infinity is written as null.
JSONStringify(v) ==
    CASE v = "obj:data.id=1" -> T_data
      [] v = "obj:errors[0].message=denied" -> T_errors
      [] v = "obj:id=Infinity" -> "{\"id\":null}"
      [] OTHER -> "null"

IsJSON(raw) == ~JSONParse(raw).threw

----------------------------------------------------------------------------
(* The response object *)

Resp(status, body) == [status |-> status, body |-> body]

\* Mutant of ResSend: writes a response whether or not one was sent.
ResSendUnguarded(w, status, body) ==
    [wire |-> Append(w, Resp(status, body)), threw |-> FALSE]

\* res.status(status).send(body) / .json(body) on a response whose wire so
\* far is w: the first call writes the response; a later one throws
\* ERR_HTTP_HEADERS_SENT from setHeader and writes nothing.
ResSend(w, status, body) ==
    IF w = <<>>
    THEN [wire |-> <<Resp(status, body)>>, threw |-> FALSE]
    ELSE [wire |-> w, threw |-> TRUE]

MsgMissingUpload == "{\"error\":\"Missing item_id or column_id in query params\"}"
MsgNoFile == "{\"error\":\"No file uploaded\"}"
MsgMissingItem == "{\"error\":\"Missing boardId or itemName in request body\"}"
MsgMissingSubitem == "{\"error\":\"Missing parentItemId or itemName in request body\"}"
MsgInvalidJSON == "Invalid JSON response"

\* The message of the request.on('error') handler of each route.
ErrorMsg(route) ==
    CASE route = "/upload" -> "Upload failed"
      [] route = "/create-item" -> "Create item failed"
      [] OTHER -> "Create subitem failed"

----------------------------------------------------------------------------
(* Validation *)

\* Mutant of UploadParamsMissing: && in place of ||.
UploadParamsMissingBoth(q) == Falsy(q.a) /\ Falsy(q.b)

\* !item_id || !column_id
UploadParamsMissing(q) == Falsy(q.a) \/ Falsy(q.b)

\* !req.file
UploadFileMissing(q) == q.file = NoFile

\* Mutant of CreateFieldsMissing: && in place of ||.
CreateFieldsMissingBoth(q) == Falsy(q.a) /\ Falsy(q.b)

\* !boardId || !itemName, !parentItemId || !itemName
CreateFieldsMissing(q) == Falsy(q.a) \/ Falsy(q.b)

----------------------------------------------------------------------------
(* The outbound request *)

\* Mutant of UpstreamPath: the upload posted to the mutation endpoint.
UpstreamPathAlwaysV2(route) == "/v2"

\* options.path
UpstreamPath(route) == IF route = "/upload" THEN "/v2/file" ELSE "/v2"

\* options of https.request
Options(route) ==
    [method |-> "POST", hostname |-> "api.monday.com", path |-> UpstreamPath(route)]

\* Mutant of UploadSteps: the temp file unlinked before it is read and sent.
UploadStepsUnlinkFirst ==
    <<"fs.unlink", "fs.readFileSync", "https.request", "request.write", "request.end">>

\* The I/O calls of the upload handler past validation, in program order.
UploadSteps ==
    <<"fs.readFileSync", "https.request", "request.write", "request.end", "fs.unlink">>

\* The I/O calls of the create-item and create-subitem handlers.
CreateSteps == <<"https.request", "request.write", "request.end">>

\* Mutant of ResOf: res kept in a variable shared by all requests.
ResOfLatest(r) == nextId

\* The res a callback registered for request r writes to: the res of the
\* handler invocation whose closure it is.
ResOf(r) == r

\* Mutant of UnlinkPath: the path of the most recent upload.
UnlinkPathLatest(r) == nextPath

\* req.file.path, the argument of fs.unlink
UnlinkPath(r) == req[r].file

----------------------------------------------------------------------------
(* Multipart assembly (upload handler) *)

\* Text is modelled as a sequence of chunks: a chunk is a run of characters
\* that the assembly and the parser treat as a unit.

CRLF == "\r\n"
QUOTE == "\""
DASHES == "--"

\* Longest originalname and file content (in chunks) the model draws.
MaxNameLen == 2
MaxFileLen == 3

\* '----WebKitFormBoundary' + Math.random().toString(36).substring(2)
Boundaries == {"----WebKitFormBoundaryk3j9x", "----WebKitFormBoundary7q2mz"}

SeqsUpTo(A, n) == UNION {[1..k -> A] : k \in 0..n}

\* File bytes are arbitrary: a line break, two dashes, or the very characters
\* of a boundary can occur in them.
FileChunks == {"a", CRLF, DASHES, "----WebKitFormBoundaryk3j9x"}

\* originalname is what the client wrote in its own filename parameter.
NameChunks == {"a", QUOTE, CRLF}

\* item_id and column_id values (truthy, so not empty).
IdValues == {<<"a">>, <<QUOTE, "a">>, <<CRLF, DASHES>>}

MultipartInputs ==
    [item_id : IdValues, column_id : IdValues,
     originalname : SeqsUpTo(NameChunks, MaxNameLen),
     content : SeqsUpTo(FileChunks, MaxFileLen)]

NoInput == [item_id |-> <<>>, column_id |-> <<>>, originalname |-> <<>>, content |-> <<>>]
NoOutput == [boundary |-> "none", payload |-> <<>>]
NotParsed == [ok |-> FALSE, why |-> "not parsed"]

\* The text of the mutation, const query.
QueryText == "mutation addFile($file: File!, $item_id: ID!, $column_id: String!) {...}"
MapText == "{\"fileField\": [\"variables.file\"]}"

CDQuery == "Content-Disposition: form-data; name=\"query\""
CDVariables == "Content-Disposition: form-data; name=\"variables\""
CDMap == "Content-Disposition: form-data; name=\"map\""
CDFileOpen == "Content-Disposition: form-data; name=\"fileField\"; filename=\""
CTOctet == "Content-Type: application/octet-stream"

RECURSIVE JSONEscape(_)
\* The characters of a string as JSON.stringify writes them between quotes:
\* a double quote becomes \", a line break becomes \r\n (backslash escapes).
JSONEscape(str) ==
    IF str = <<>> THEN <<>>
    ELSE <<(CASE Head(str) = QUOTE -> "\\\""
              [] Head(str) = CRLF -> "\\r\\n"
              [] OTHER -> Head(str))>> \o JSONEscape(Tail(str))

\* JSON.stringify({item_id, column_id, file: null})
VariablesJSON(item_id, column_id) ==
    <<"{\"item_id\":", QUOTE>> \o JSONEscape(item_id)
    \o <<QUOTE, ",\"column_id\":", QUOTE>> \o JSONEscape(column_id)
    \o <<QUOTE, ",\"file\":null}">>

\* ${req.file.originalname}, spliced as it is
FilenameParam(name) == name

\* formData, then Buffer.concat([formData, fileContent, closing delimiter])
Assemble(boundary, item_id, column_id, originalname, content) ==
    <<DASHES, boundary, CRLF, CDQuery, CRLF, CRLF, QueryText, CRLF>>
    \o <<DASHES, boundary, CRLF, CDVariables, CRLF, CRLF>>
    \o VariablesJSON(item_id, column_id) \o <<CRLF>>
    \o <<DASHES, boundary, CRLF, CDMap, CRLF, CRLF, MapText, CRLF>>
    \o <<DASHES, boundary, CRLF, CDFileOpen>> \o FilenameParam(originalname)
    \o <<QUOTE, CRLF, CTOctet, CRLF, CRLF>>
    \o content
    \o <<CRLF, DASHES, boundary, DASHES, CRLF>>

----------------------------------------------------------------------------
(* A multipart/form-data parser (RFC 2046 5.1.1, RFC 7578), as the upstream
   runs one on the payload *)

Malformed == <<"malformed">>

RECURSIVE NextDelim(_, _, _)
\* Index of the first delimiter (CRLF "--" boundary) at or after i, or 0.
NextDelim(s, i, bnd) ==
    IF i + 2 > Len(s) THEN 0
    ELSE IF s[i] = CRLF /\ s[i + 1] = DASHES /\ s[i + 2] = bnd THEN i
    ELSE NextDelim(s, i + 1, bnd)

RECURSIVE PartsFrom(_, _, _)
\* The body parts from pos on, pos being just past a delimiter: "--" closes
\* the body, a line break starts the next part, which runs to the next
\* delimiter.
PartsFrom(s, pos, bnd) ==
    IF pos <= Len(s) /\ s[pos] = DASHES THEN <<>>
    ELSE IF pos > Len(s) \/ s[pos] # CRLF THEN <<Malformed>>
    ELSE LET j == NextDelim(s, pos + 1, bnd)
         IN IF j = 0 THEN <<Malformed>>
            ELSE <<SubSeq(s, pos + 1, j - 1)>> \o PartsFrom(s, j + 3, bnd)

SplitParts(s, bnd) ==
    IF Len(s) >= 2 /\ s[1] = DASHES /\ s[2] = bnd
    THEN PartsFrom(s, 3, bnd)
    ELSE <<Malformed>>

\* Index of the blank line that ends the headers of a part, or 0.
BlankLine(part) ==
    IF \E k \in 1..(Len(part) - 1) : part[k] = CRLF /\ part[k + 1] = CRLF
    THEN CHOOSE k \in 1..(Len(part) - 1) :
            /\ part[k] = CRLF /\ part[k + 1] = CRLF
            /\ \A j \in 1..(k - 1) : ~(part[j] = CRLF /\ part[j + 1] = CRLF)
    ELSE 0

\* The first header line of a part: up to the first line break.
FirstLine(part) ==
    LET k == Pos(part, CRLF) IN IF k = 0 THEN part ELSE SubSeq(part, 1, k - 1)

\* A part read as [name, filename, content].
ParsePart(part) ==
    LET k == BlankLine(part)
        line == FirstLine(part)
        content == SubSeq(part, k + 2, Len(part))
    IN IF part = Malformed \/ k = 0 \/ line = <<>>
       THEN [name |-> "malformed", filename |-> <<>>, content |-> <<>>]
       ELSE IF line = <<CDQuery>>
       THEN [name |-> "query", filename |-> <<>>, content |-> content]
       ELSE IF line = <<CDVariables>>
       THEN [name |-> "variables", filename |-> <<>>, content |-> content]
       ELSE IF line = <<CDMap>>
       THEN [name |-> "map", filename |-> <<>>, content |-> content]
       ELSE IF line[1] = CDFileOpen /\ Pos(Tail(line), QUOTE) > 0
       THEN \* quoted-string: up to the next double quote
            [name |-> "fileField",
             filename |-> SubSeq(Tail(line), 1, Pos(Tail(line), QUOTE) - 1),
             content |-> content]
       ELSE [name |-> "malformed", filename |-> <<>>, content |-> <<>>]

RECURSIVE JSONUnescape(_)
JSONUnescape(str) ==
    IF str = <<>> THEN <<>>
    ELSE <<(CASE Head(str) = "\\\"" -> QUOTE
              [] Head(str) = "\\r\\n" -> CRLF
              [] OTHER -> Head(str))>> \o JSONUnescape(Tail(str))

\* The variables part read back as an object, or "invalid".
ParseVariables(t) ==
    LET q1 == Pos(SubSeq(t, 3, Len(t)), QUOTE) + 2
        rest == SubSeq(t, q1 + 1, Len(t))
        q2 == Pos(SubSeq(rest, 3, Len(rest)), QUOTE) + 2
    IN IF /\ Len(t) >= 6 /\ t[1] = "{\"item_id\":" /\ t[2] = QUOTE /\ q1 > 2
          /\ Len(rest) >= 4 /\ rest[1] = ",\"column_id\":" /\ rest[2] = QUOTE
          /\ q2 > 2 /\ SubSeq(rest, q2 + 1, Len(rest)) = <<",\"file\":null}">>
       THEN [item_id |-> JSONUnescape(SubSeq(t, 3, q1 - 1)),
             column_id |-> JSONUnescape(SubSeq(rest, 3, q2 - 1)),
             file |-> "null"]
       ELSE [item_id |-> <<>>, column_id |-> <<>>, file |-> "invalid"]

\* The payload read back.
ParseMultipart(payload, bnd) ==
    LET raw == SplitParts(payload, bnd)
        parts == [i \in 1..Len(raw) |-> ParsePart(raw[i])]
    IN IF Len(parts) = 4
          /\ parts[1].name = "query" /\ parts[2].name = "variables"
          /\ parts[3].name = "map" /\ parts[4].name = "fileField"
       THEN [ok |-> TRUE,
             query |-> parts[1].content,
             variables |-> ParseVariables(parts[2].content),
             map |-> parts[3].content,
             filename |-> parts[4].filename,
             content |-> parts[4].content]
       ELSE [ok |-> FALSE, why |-> "parts"]

----------------------------------------------------------------------------
(* Initial state *)

Init ==
    /\ nextId = 0
    /\ nextPath = 0
    /\ req = [r \in Reqs |-> NoReq]
    /\ phase = [r \in Reqs |-> "idle"]
    /\ disk = {}
    /\ steps = [r \in Reqs |-> <<>>]
    /\ out = [r \in Reqs |-> <<>>]
    /\ unlinkOf = [r \in Reqs |-> NoUnlink]
    /\ endFired = [r \in Reqs |-> NoReply]
    /\ errFired = [r \in Reqs |-> FALSE]
    /\ wire = [r \in Reqs |-> <<>>]
    /\ fault = <<>>
    /\ mpIn = NoInput
    /\ mpOut = NoOutput
    /\ mpParsed = NotParsed

\* An uncaught exception in a callback ends the process.
Running == fault = <<>>

----------------------------------------------------------------------------
(* Arrival: the middleware stack *)

\* POST /upload reaches the route after upload.single('file'): when the
\* multipart body has a part named file, multer has written it under
\* uploads/ with a generated name and set req.file.
ArriveUpload(a, b, hasFile) ==
    /\ Running
    /\ nextId < MaxReq
    /\ LET r == nextId + 1
           p == nextPath + 1
       IN /\ nextId' = r
          /\ nextPath' = IF hasFile THEN p ELSE nextPath
          /\ disk' = IF hasFile THEN disk \cup {p} ELSE disk
          /\ req' = [req EXCEPT ![r] =
                [route |-> "/upload", a |-> a, b |-> b,
                 file |-> IF hasFile THEN p ELSE NoFile]]
          /\ phase' = [phase EXCEPT ![r] = "received"]
    /\ UNCHANGED <<steps, out, unlinkOf, endFired, errFired, wire, fault>>
    /\ UNCHANGED mpVars

\* POST /create-item or /create-subitem reaches the route after
\* express.json() has set req.body.
ArriveCreate(route, a, b) ==
    /\ Running
    /\ nextId < MaxReq
    /\ LET r == nextId + 1
       IN /\ nextId' = r
          /\ req' = [req EXCEPT ![r] =
                [route |-> route, a |-> a, b |-> b, file |-> NoFile]]
          /\ phase' = [phase EXCEPT ![r] = "received"]
    /\ UNCHANGED <<nextPath, disk, steps, out, unlinkOf, endFired, errFired,
                   wire, fault>>
    /\ UNCHANGED mpVars

----------------------------------------------------------------------------
(* Route handlers *)

\* return res.status(400).json({error: msg})
Reject(r, msg) ==
    /\ wire' = [wire EXCEPT ![r] = ResSend(wire[r], 400, msg).wire]
    /\ UNCHANGED <<steps, out, unlinkOf, fault>>

\* app.post('/upload', upload.single('file'), (req, res) => {...})
UploadHandler(r) ==
    /\ Running
    /\ phase[r] = "received"
    /\ req[r].route = "/upload"
    /\ phase' = [phase EXCEPT ![r] = "handled"]
    /\ IF UploadParamsMissing(req[r]) THEN Reject(r, MsgMissingUpload)
       ELSE IF UploadFileMissing(req[r]) THEN Reject(r, MsgNoFile)
       ELSE IF req[r].file \notin disk
       THEN \* readFileSync throws; Express answers the route's exception
            /\ steps' = [steps EXCEPT ![r] = <<"fs.readFileSync">>]
            /\ wire' = [wire EXCEPT ![r] = ResSend(wire[r], 500, "ENOENT").wire]
            /\ UNCHANGED <<out, unlinkOf, fault>>
       ELSE /\ steps' = [steps EXCEPT ![r] = UploadSteps]
            /\ out' = [out EXCEPT ![r] =
                  IF Count(UploadSteps, "https.request") > 0
                  THEN Append(out[r], Options(req[r].route)) ELSE out[r]]
            /\ unlinkOf' = [unlinkOf EXCEPT ![r] =
                  IF Count(UploadSteps, "fs.unlink") > 0
                  THEN [path |-> UnlinkPath(r), state |-> "pending"]
                  ELSE unlinkOf[r]]
            /\ UNCHANGED <<wire, fault>>
    /\ UNCHANGED <<nextId, nextPath, req, disk, endFired, errFired>>
    /\ UNCHANGED mpVars

\* app.post('/create-item', ...) and app.post('/create-subitem', ...)
CreateHandler(r) ==
    /\ Running
    /\ phase[r] = "received"
    /\ req[r].route \in {"/create-item", "/create-subitem"}
    /\ phase' = [phase EXCEPT ![r] = "handled"]
    /\ IF CreateFieldsMissing(req[r])
       THEN Reject(r, IF req[r].route = "/create-item"
                      THEN MsgMissingItem ELSE MsgMissingSubitem)
       ELSE /\ steps' = [steps EXCEPT ![r] = CreateSteps]
            /\ out' = [out EXCEPT ![r] = Append(out[r], Options(req[r].route))]
            /\ UNCHANGED <<wire, unlinkOf, fault>>
    /\ UNCHANGED <<nextId, nextPath, req, disk, endFired, errFired>>
    /\ UNCHANGED mpVars

----------------------------------------------------------------------------
(* Callbacks *)

\* response.on('end'): parse rawData and relay it, or answer 500.  The
\* catch also catches what res.status(200).json throws.
OnEnd(r, reply) ==
    /\ Running
    /\ out[r] # <<>>
    /\ endFired[r] = NoReply
    /\ endFired' = [endFired EXCEPT ![r] = reply]
    /\ LET t == ResOf(r)
           parsed == JSONParse(reply.body)
           try == IF parsed.threw
                  THEN [wire |-> wire[t], threw |-> TRUE]
                  ELSE ResSend(wire[t], 200, JSONStringify(parsed.value))
           catch == ResSend(wire[t], 500, MsgInvalidJSON)
           done == IF try.threw THEN catch ELSE try
       IN /\ wire' = [wire EXCEPT ![t] = done.wire]
          /\ fault' = IF done.threw
                      THEN Append(fault, [req |-> r, in |-> "end"])
                      ELSE fault
    /\ UNCHANGED <<nextId, nextPath, req, phase, disk, steps, out, unlinkOf, errFired>>
    /\ UNCHANGED mpVars

\* request.on('error')
OnError(r) ==
    /\ Running
    /\ out[r] # <<>>
    /\ ~errFired[r]
    /\ errFired' = [errFired EXCEPT ![r] = TRUE]
    /\ LET t == ResOf(r)
           done == ResSend(wire[t], 500, ErrorMsg(req[r].route))
       IN /\ wire' = [wire EXCEPT ![t] = done.wire]
          /\ fault' = IF done.threw
                      THEN Append(fault, [req |-> r, in |-> "error"])
                      ELSE fault
    /\ UNCHANGED <<nextId, nextPath, req, phase, disk, steps, out, unlinkOf, endFired>>
    /\ UNCHANGED mpVars

\* The callback of fs.unlink: the file is gone, or err is logged.
UnlinkDone(r, ok) ==
    /\ Running
    /\ unlinkOf[r].state = "pending"
    /\ unlinkOf' = [unlinkOf EXCEPT ![r].state = IF ok THEN "deleted" ELSE "failed"]
    /\ disk' = IF ok THEN disk \ {unlinkOf[r].path} ELSE disk
    /\ UNCHANGED <<nextId, nextPath, req, phase, steps, out, endFired, errFired,
                   wire, fault>>
    /\ UNCHANGED mpVars

----------------------------------------------------------------------------

Next ==
    \/ \E i \in UploadInputs : ArriveUpload(i.a, i.b, i.hasFile)
    \/ \E route \in {"/create-item", "/create-subitem"}, i \in CreateInputs :
          ArriveCreate(route, i.a, i.b)
    \/ \E r \in Reqs : UploadHandler(r)
    \/ \E r \in Reqs : CreateHandler(r)
    \/ \E r \in Reqs, reply \in UpstreamReplies : OnEnd(r, reply)
    \/ \E r \in Reqs : OnError(r)
    \/ \E r \in Reqs, ok \in BOOLEAN : UnlinkDone(r, ok)

Spec == Init /\ [][Next]_vars

----------------------------------------------------------------------------
(* The multipart assembly on its own: lines 53-93 of the upload handler on
   every input of MultipartInputs, and a parser reading the payload back *)

MpInit ==
    /\ nextId = 0
    /\ nextPath = 0
    /\ req = [r \in Reqs |-> NoReq]
    /\ phase = [r \in Reqs |-> "idle"]
    /\ disk = {}
    /\ steps = [r \in Reqs |-> <<>>]
    /\ out = [r \in Reqs |-> <<>>]
    /\ unlinkOf = [r \in Reqs |-> NoUnlink]
    /\ endFired = [r \in Reqs |-> NoReply]
    /\ errFired = [r \in Reqs |-> FALSE]
    /\ wire = [r \in Reqs |-> <<>>]
    /\ fault = <<>>
    /\ mpIn \in MultipartInputs
    /\ mpOut = NoOutput
    /\ mpParsed = NotParsed

\* const boundary = ...; formData += ...; const payload = Buffer.concat(...)
MpAssemble(boundary) ==
    /\ mpOut = NoOutput
    /\ mpOut' = [boundary |-> boundary,
                 payload |-> Assemble(boundary, mpIn.item_id, mpIn.column_id,
                                      mpIn.originalname, mpIn.content)]
    /\ UNCHANGED <<mpIn, mpParsed>>
    /\ UNCHANGED serverVars

\* The receiver of the payload splits it on the boundary of its Content-Type.
MpParse ==
    /\ mpOut # NoOutput
    /\ mpParsed = NotParsed
    /\ mpParsed' = ParseMultipart(mpOut.payload, mpOut.boundary)
    /\ UNCHANGED <<mpIn, mpOut>>
    /\ UNCHANGED serverVars

MpNext ==
    \/ \E boundary \in Boundaries : MpAssemble(boundary)
    \/ MpParse

SpecMultipart == MpInit /\ [][MpNext]_vars

----------------------------------------------------------------------------
(* Properties *)

TypeOK ==
    /\ nextId \in 0..MaxReq
    /\ nextPath \in 0..MaxReq
    /\ disk \subseteq 1..MaxReq
    /\ \A r \in Reqs :
          /\ phase[r] \in {"idle", "received", "handled"}
          /\ req[r].route \in Routes \cup {"none"}
          /\ unlinkOf[r].state \in {"none", "pending", "deleted", "failed"}
          /\ endFired[r] \in UpstreamReplies \cup {NoReply}
          /\ errFired[r] \in BOOLEAN

\* The handler of r has returned.
Handled(r) == phase[r] = "handled"

\* r lacks a field its route requires, or (upload) has no file attached.
Lacking(r) ==
    \/ req[r].a \in {"undefined", ""}
    \/ req[r].b \in {"undefined", ""}
    \/ (req[r].route = "/upload" /\ req[r].file = NoFile)

\* Nothing more will happen for r: it was answered and no unlink is pending.
Finished(r) ==
    /\ Handled(r)
    /\ wire[r] # <<>>
    /\ unlinkOf[r].state # "pending"

\* C1: every temp file multer stored for a POST /upload is deleted exactly
\* once, whatever path the request takes (400, upstream success, non-JSON
\* body, transport error): no end state of a request leaves its temp file
\* on disk.
C1_TempFileDeletedOnEveryPath ==
    \A r \in Reqs :
        (req[r].file # NoFile /\ Finished(r)) =>
            /\ unlinkOf[r].state = "deleted"
            /\ req[r].file \notin disk

\* C2: a POST /upload that lacks item_id, lacks column_id or has no file
\* attached is answered 400 and no outbound call is issued for it, also when
\* a file was attached and only a query parameter is missing.
C2_UploadRejectedLocally ==
    \A r \in Reqs :
        (req[r].route = "/upload" /\ Handled(r) /\ Lacking(r)) =>
            /\ Len(wire[r]) = 1
            /\ wire[r][1].status = 400
            /\ out[r] = <<>>
            /\ steps[r] = <<>>

C2_Witness ==
    \E r \in Reqs :
        /\ req[r].route = "/upload" /\ Handled(r)
        /\ req[r].file # NoFile /\ req[r].a = "undefined"
        /\ wire[r] = <<Resp(400, MsgMissingUpload)>>
        /\ out[r] = <<>>

\* C3: a POST /create-item missing boardId or itemName, and a POST
\* /create-subitem missing parentItemId or itemName, is answered 400 by the
\* handler itself: no outbound request is created.
C3_CreateRejectedLocally ==
    \A r \in Reqs :
        (req[r].route \in {"/create-item", "/create-subitem"}
         /\ Handled(r) /\ Lacking(r)) =>
            /\ Len(wire[r]) = 1
            /\ wire[r][1].status = 400
            /\ out[r] = <<>>
            /\ steps[r] = <<>>

C3_Witness ==
    \E r1, r2 \in Reqs :
        /\ req[r1].route = "/create-item" /\ req[r1].a = "undefined"
        /\ wire[r1] = <<Resp(400, MsgMissingItem)>>
        /\ req[r2].route = "/create-subitem" /\ req[r2].b = ""
        /\ wire[r2] = <<Resp(400, MsgMissingSubitem)>>
        /\ out[r1] = <<>> /\ out[r2] = <<>>

\* C4: an inbound operation that passes validation issues exactly one
\* outbound HTTPS POST, to /v2/file for upload and to /v2 for item and
\* subitem, and never a second one whatever the outcome: there is no retry.
C4_ExactlyOneOutboundPost ==
    \A r \in Reqs :
        /\ Len(out[r]) <= 1
        /\ (Handled(r) /\ ~Lacking(r)) =>
              /\ Len(out[r]) = 1
              /\ out[r][1].method = "POST"
              /\ out[r][1].hostname = "api.monday.com"
              /\ out[r][1].path =
                    (IF req[r].route = "/upload" THEN "/v2/file" ELSE "/v2")

C4_Witness ==
    \E r1, r2 \in Reqs :
        /\ req[r1].route = "/upload" /\ errFired[r1] /\ Len(out[r1]) = 1
        /\ req[r2].route = "/create-subitem" /\ endFired[r2] # NoReply
        /\ Len(out[r2]) = 1

\* C5: whenever the upstream response body parses as JSON, of any shape and
\* whatever the upstream status code, the caller receives status 200 with
\* JSON content identical to the upstream body.
C5_JSONRelayedIdentically ==
    \A r \in Reqs :
        (endFired[r] # NoReply /\ IsJSON(endFired[r].body)) =>
            wire[r] = <<Resp(200, endFired[r].body)>>

\* C6: an upstream failure (a body that is not JSON, or a transport error on
\* the outbound request) yields status 500 with a fixed message that depends
\* only on the failure kind and the operation; it is never a fault thrown
\* out of the handler.
C6_UpstreamFailureYields500 ==
    /\ fault = <<>>
    /\ \A r \in Reqs :
          /\ errFired[r] => wire[r] = <<Resp(500, ErrorMsg(req[r].route))>>
          /\ (endFired[r] # NoReply /\ ~IsJSON(endFired[r].body)) =>
                wire[r] = <<Resp(500, MsgInvalidJSON)>>

\* What reading the payload back must give.
RoundTrip(in) ==
    [ok |-> TRUE,
     query |-> <<QueryText>>,
     variables |-> [item_id |-> in.item_id, column_id |-> in.column_id, file |-> "null"],
     map |-> <<MapText>>,
     filename |-> in.originalname,
     content |-> in.content]

\* C7: for every mutation text, variables, filename and file bytes, the body
\* the upload handler assembles, split on its boundary by a conforming
\* multipart parser, gives back the same mutation text, the variables with a
\* null file placeholder, the map, and the same file bytes and filename,
\* also when the file bytes contain the boundary or the filename contains a
\* double quote or a line break.
C7_MultipartRoundTrip ==
    mpParsed # NotParsed => mpParsed = RoundTrip(mpIn)

\* The filename has no double quote and no line break, and the file bytes,
\* framed as in the payload, hold no delimiter before the closing one.
Benign(in, bnd) ==
    /\ \A i \in 1..Len(in.originalname) : in.originalname[i] \notin {QUOTE, CRLF}
    /\ NextDelim(<<CRLF>> \o in.content \o <<CRLF, DASHES, bnd>>, 1, bnd)
          = Len(in.content) + 2

\* The round trip on the inputs that cannot be mistaken for framing.
MultipartRoundTripBenign ==
    (mpParsed # NotParsed /\ Benign(mpIn, mpOut.boundary)) =>
        mpParsed = RoundTrip(mpIn)

MultipartRoundTripBenignWitness ==
    /\ mpParsed # NotParsed /\ Benign(mpIn, mpOut.boundary)
    /\ Len(mpIn.content) = 3 /\ mpIn.item_id = <<QUOTE, "a">>
    /\ mpIn.content[3] = "----WebKitFormBoundaryk3j9x"

\* The unlink callback ran in this step.
UnlinkReported ==
    \E r \in Reqs : unlinkOf[r].state = "pending" /\ unlinkOf'[r].state # "pending"

C8_StepsInOrder ==
    \A r \in Reqs :
        (req[r].route = "/upload" /\ Handled(r) /\ ~Lacking(r)) =>
            /\ Count(steps[r], "fs.unlink") = 1
            /\ unlinkOf[r].state # "none"
            /\ Pos(steps[r], "fs.readFileSync") > 0
            /\ Pos(steps[r], "fs.readFileSync") < Pos(steps[r], "fs.unlink")
            /\ Pos(steps[r], "request.end") > 0
            /\ Pos(steps[r], "request.end") < Pos(steps[r], "fs.unlink")

\* C8: an upload that passes validation issues exactly one temp-file
\* deletion, after the file was read and after the upstream call was
\* dispatched, in the handler itself (so before any upstream callback, and
\* whatever the upstream outcome); the outcome of the deletion changes
\* neither the status nor the body of the response.
C8_OneDeletionAfterDispatch ==
    /\ []C8_StepsInOrder
    /\ [][UnlinkReported => wire' = wire]_vars

C8_Witness ==
    \E r \in Reqs :
        /\ req[r].route = "/upload"
        /\ unlinkOf[r].state = "failed"
        /\ req[r].file \in disk
        /\ wire[r] = <<Resp(200, T_data)>>

OwnResponses(r) ==
    {Resp(400, m) : m \in
        (IF req[r].route = "/upload" /\ (Falsy(req[r].a) \/ Falsy(req[r].b))
         THEN {MsgMissingUpload} ELSE {})
        \cup (IF req[r].route = "/upload" /\ ~(Falsy(req[r].a) \/ Falsy(req[r].b))
                 /\ req[r].file = NoFile
              THEN {MsgNoFile} ELSE {})
        \cup (IF req[r].route = "/create-item" /\ Lacking(r)
              THEN {MsgMissingItem} ELSE {})
        \cup (IF req[r].route = "/create-subitem" /\ Lacking(r)
              THEN {MsgMissingSubitem} ELSE {})}
    \cup (IF endFired[r] # NoReply /\ IsJSON(endFired[r].body)
          THEN {Resp(200, JSONStringify(JSONParse(endFired[r].body).value))}
          ELSE {})
    \cup (IF endFired[r] # NoReply /\ ~IsJSON(endFired[r].body)
          THEN {Resp(500, MsgInvalidJSON)} ELSE {})
    \cup (IF errFired[r] THEN {Resp(500, ErrorMsg(req[r].route))} ELSE {})

\* C10: under any interleaving of concurrently handled requests, the
\* response each request receives and the temp file it deletes are those of
\* its own inputs and its own upstream outcome: no reply and no temp-file
\* path of one request reaches, or is deleted by, another.
C10_RequestsIsolated ==
    \A r \in Reqs :
        /\ \A i \in 1..Len(wire[r]) : wire[r][i] \in OwnResponses(r)
        /\ unlinkOf[r].path \in {NoFile, req[r].file}
        /\ (req[r].file # NoFile /\ req[r].file \notin disk) =>
              unlinkOf[r].state = "deleted"
        /\ \A q \in Reqs \ {r} : req[r].file # NoFile => req[q].file # req[r].file

C10_Witness ==
    \E r1, r2 \in Reqs :
        /\ r1 < r2
        /\ req[r1].route = "/upload" /\ req[r2].route = "/upload"
        /\ wire[r2] = <<Resp(200, T_data)>>
        /\ wire[r1] = <<Resp(500, MsgInvalidJSON)>>
        /\ unlinkOf[r1].state = "deleted" /\ unlinkOf[r2].state = "pending"
        /\ req[r1].file \notin disk /\ req[r2].file \in disk

====
